---- MODULE Spec2Model ----
(***************************************************************************)
(* Model of the Linear container of linear.go: an ordered key slice        *)
(* (keys), a concurrent value map (items), a running size                  *)
(* (linearCurrentSize) and a size limit (linearSizes).                     *)
(*                                                                         *)
(* Spec is the sequential model: every public method is one action that    *)
(* performs the whole method body.  SpecConc is the concurrent model: the  *)
(* callers of Procs run the methods step by step, one access to the shared *)
(* fields per step, under the two mutexes of the struct.                   *)
(***************************************************************************)
EXTENDS Integers, Sequences, FiniteSets, TLC

VARIABLES
    items,              \* l.items: the sync.Map, a function from the stored keys to values
    keys,               \* l.keys: the ordered key slice
    sizeChecker,        \* l.sizeChecker: evict the oldest entries on overflow
    linearSizes,        \* l.linearSizes: the size limit
    linearCurrentSize,  \* l.linearCurrentSize: the running size
    call,               \* the last method called and its arguments
    result,             \* what that call returned: [item, err]
    scen,               \* history of the run since New (see ScenInit)
    visited,            \* the <<key, value>> pairs the last Range passed to its visitor
    pc,                 \* SpecConc: where each caller is in the method it runs
    loc,                \* SpecConc: the arguments and local variables of that method
    sizeMux,            \* l.sizeMux: the caller that holds it, or Free
    keysMux,            \* l.keysMux: the caller that holds it, or Free
    rets                \* SpecConc: per caller, the calls that returned, with their results

vars == <<items, keys, sizeChecker, linearSizes, linearCurrentSize, call, result, scen, visited,
          pc, loc, sizeMux, keysMux, rets>>

seqVars == <<call, result, scen, visited>>

concVars == <<pc, loc, sizeMux, keysMux, rets>>

-----------------------------------------------------------------------------
(* Bounds of the model *)

MaxKeys == 3        \* longest key slice explored
MaxSize == 5        \* largest running size explored
MaxScen == 4        \* longest tracked run of pushes
MaxCalls == 2       \* SpecConc: calls each caller makes

(* Argument domains *)

NilValue == [kind |-> "nil", text |-> "", len |-> 0]
Str(s) == [kind |-> "string", text |-> s, len |-> 0]

Keys == {"", "a", "b"}
Values == {NilValue, Str(""), Str("p")}
MaxSizes == {2, 3}
SizeArgs == {0, 1, 3}

(* SpecConc: the callers; the entry each of them pushes; the other         *)
(* arguments.                                                              *)
Procs == {1, 2}
Free == 0
OwnKey(p) == IF p = 1 THEN "a" ELSE "b"
OwnValue(p) == IF p = 1 THEN Str("") ELSE Str("p")
ConcKeys == {"a", "b"}
ConcValues == {Str("p")}
ConcSizes == {3, 6}
ConcSizeArgs == {1}

-----------------------------------------------------------------------------
(* Errors, named by the text the code passes to errors.New.  ErrPanic and  *)
(* ErrHang are not return values: the call aborted with a runtime panic,   *)
(* or never returned.                                                      *)

ErrNone == "nil"
ErrInvalid == "key and value should not be empty"
ErrNoSpace == "linear doesn't have enough memory space"
ErrEmpty == "linear is empty"
ErrEmptyOrNoSpace == "linear is empty or not enough space"
ErrNotExist == "key does not exit"
ErrBadSize == "linearSizes much higher than 0"
ErrPanic == "panic"
ErrHang == "does not return"

-----------------------------------------------------------------------------
(* Helpers of the key slice.  Indexes are Go's: the first element is 0.    *)

(* A removal that does not keep the order: the last element takes the     *)
(* place of the removed one.                                               *)
removeItemByIndexSwapLast(slice, idx) ==
    IF idx < 0 \/ idx >= Len(slice)
    THEN slice
    ELSE SubSeq([slice EXCEPT ![idx + 1] = slice[Len(slice)]], 1, Len(slice) - 1)

removeItemByIndex(slice, idx) ==
    IF idx < 0 \/ idx >= Len(slice)
    THEN slice
    ELSE SubSeq(slice, 1, idx) \o SubSeq(slice, idx + 2, Len(slice))

RECURSIVE findFrom(_, _, _)
findFrom(keyName, its, index) ==
    IF index >= Len(its) THEN [index |-> -1, found |-> FALSE]
    ELSE IF keyName = its[index + 1] THEN [index |-> index, found |-> TRUE]
    ELSE findFrom(keyName, its, index + 1)

findIndexByItem(keyName, its) == findFrom(keyName, its, 0)

-----------------------------------------------------------------------------
(* The size estimate.  reflect.ValueOf(nil) has Kind Invalid, which takes  *)
(* the default branch, where reflect.TypeOf(nil) is a nil Type and the     *)
(* call of Size() on it panics.                                            *)

calculateItemSizePanics(value) == value.kind = "nil"

calculateItemSize(key, value) ==
    Len(key) +
        CASE value.kind = "string" -> Len(value.text)
          [] value.kind \in {"slice", "array"} -> value.len
          [] value.kind \in {"map", "struct"} -> 64
          [] OTHER -> value.len

-----------------------------------------------------------------------------
(* The container as a value, for the methods that call one another.        *)

State == [items |-> items, keys |-> keys, cur |-> linearCurrentSize]

IsEmptyIn(st) == Len(st.keys) = 0

Load(st, key) == key \in DOMAIN st.items

Delete(its, key) == [k \in DOMAIN its \ {key} |-> its[k]]

Store(its, key, value) == [k \in DOMAIN its \cup {key} |-> IF k = key THEN value ELSE its[k]]

LoadOrStore(its, key, value) == IF key \in DOMAIN its THEN its ELSE Store(its, key, value)

(* removeByIndex: [item, size, err, st], st the container afterwards *)
removeByIndex(st, index) ==
    IF IsEmptyIn(st)
    THEN [item |-> NilValue, size |-> 0, err |-> ErrEmpty, st |-> st]
    ELSE LET key == st.keys[index + 1] IN
         IF ~Load(st, key)
         THEN [item |-> NilValue, size |-> 0, err |-> ErrNone, st |-> st]
         ELSE LET item == st.items[key]
                  itemSize == calculateItemSize(key, item)
              IN  [item |-> item, size |-> itemSize, err |-> ErrNone,
                   st |-> [items |-> Delete(st.items, key),
                           keys |-> removeItemByIndex(st.keys, index),
                           cur |-> st.cur - itemSize]]

TakeIn(st) == removeByIndex(st, 0)

PopIn(st) == removeByIndex(st, Len(st.keys) - 1)

(* An eviction loop that also evicts when the item fits exactly *)
RECURSIVE evictLoopAtLimit(_, _, _, _)
evictLoopAtLimit(st, itemSize, limit, taken) ==
    IF st.cur + itemSize >= limit
    THEN LET r == removeByIndex(st, 0) IN
         IF r.err # ErrNone THEN [err |-> r.err, st |-> r.st, taken |-> taken]
         ELSE IF r.st = st THEN [err |-> ErrHang, st |-> st, taken |-> taken]
         ELSE evictLoopAtLimit(r.st, itemSize, limit, taken + 1)
    ELSE [err |-> ErrNone, st |-> st, taken |-> taken]

(* An eviction that is an if, not a loop: at most one entry is evicted *)
evictLoopOnce(st, itemSize, limit, taken) ==
    IF st.cur + itemSize > limit
    THEN LET r == TakeIn(st) IN
         IF r.err # ErrNone THEN [err |-> r.err, st |-> r.st, taken |-> taken]
         ELSE IF r.st = st THEN [err |-> ErrHang, st |-> st, taken |-> taken]
         ELSE [err |-> ErrNone, st |-> r.st, taken |-> taken + 1]
    ELSE [err |-> ErrNone, st |-> st, taken |-> taken]

(* An eviction loop that evicts the newest entry, not the oldest *)
RECURSIVE evictLoopNewestFirst(_, _, _, _)
evictLoopNewestFirst(st, itemSize, limit, taken) ==
    IF st.cur + itemSize > limit
    THEN LET r == PopIn(st) IN
         IF r.err # ErrNone THEN [err |-> r.err, st |-> r.st, taken |-> taken]
         ELSE IF r.st = st THEN [err |-> ErrHang, st |-> st, taken |-> taken]
         ELSE evictLoopNewestFirst(r.st, itemSize, limit, taken + 1)
    ELSE [err |-> ErrNone, st |-> st, taken |-> taken]

(* The eviction loop of Push: Take until the item fits.  A Take that       *)
(* returns no error and removes nothing leaves the loop condition as it    *)
(* was, so the loop never ends.                                            *)
RECURSIVE evictLoop(_, _, _, _)
evictLoop(st, itemSize, limit, taken) ==
    IF st.cur + itemSize > limit
    THEN LET r == TakeIn(st) IN
         IF r.err # ErrNone THEN [err |-> r.err, st |-> r.st, taken |-> taken]
         ELSE IF r.st = st THEN [err |-> ErrHang, st |-> st, taken |-> taken]
         ELSE evictLoop(r.st, itemSize, limit, taken + 1)
    ELSE [err |-> ErrNone, st |-> st, taken |-> taken]

(* A Push that makes room first and compares the item with the limit after *)
PushInEvictFirst(st, key, value, limit, checker) ==
    IF key = "" /\ value = NilValue
    THEN [err |-> ErrInvalid, st |-> st, taken |-> 0]
    ELSE IF calculateItemSizePanics(value)
    THEN [err |-> ErrPanic, st |-> st, taken |-> 0]
    ELSE LET itemSize == calculateItemSize(key, value)
             ev == IF checker THEN evictLoop(st, itemSize, limit, 0)
                   ELSE [err |-> ErrNone, st |-> st, taken |-> 0]
         IN  IF ev.err # ErrNone THEN ev
             ELSE IF itemSize > limit
             THEN [err |-> ErrNoSpace, st |-> ev.st, taken |-> ev.taken]
             ELSE [err |-> ErrNone,
                   st |-> [items |-> LoadOrStore(ev.st.items, key, value),
                           keys |-> Append(ev.st.keys, key),
                           cur |-> ev.st.cur + itemSize],
                   taken |-> ev.taken]

(* Push: [err, st, taken], taken the number of entries the loop evicted *)
PushIn(st, key, value, limit, checker) ==
    IF key = "" /\ value = NilValue
    THEN [err |-> ErrInvalid, st |-> st, taken |-> 0]
    ELSE IF calculateItemSizePanics(value)
    THEN [err |-> ErrPanic, st |-> st, taken |-> 0]
    ELSE LET itemSize == calculateItemSize(key, value) IN
         IF itemSize > limit
         THEN [err |-> ErrNoSpace, st |-> st, taken |-> 0]
         ELSE LET ev == IF checker THEN evictLoop(st, itemSize, limit, 0)
                        ELSE [err |-> ErrNone, st |-> st, taken |-> 0]
              IN  IF ev.err # ErrNone THEN ev
                  ELSE [err |-> ErrNone,
                        st |-> [items |-> LoadOrStore(ev.st.items, key, value),
                                keys |-> Append(ev.st.keys, key),
                                cur |-> ev.st.cur + itemSize],
                        taken |-> ev.taken]

(* An IsExits that looks the key up in the key slice, not in the map *)
IsExitsInByOrder(st, key) ==
    IF ~findIndexByItem(key, st.keys).found THEN [size |-> 0, exits |-> FALSE]
    ELSE [size |-> IF Load(st, key) THEN calculateItemSize(key, st.items[key]) ELSE 0,
          exits |-> TRUE]

IsExitsIn(st, key) ==
    IF ~Load(st, key) THEN [size |-> 0, exits |-> FALSE]
    ELSE [size |-> calculateItemSize(key, st.items[key]), exits |-> TRUE]

IsExits(key) == IsExitsIn(State, key)

IsEmpty == Len(keys) = 0

GetNumberOfKeys == Len(keys)

GetLinearSizes == linearSizes

GetLinearCurrentSize == linearCurrentSize

-----------------------------------------------------------------------------
(* History of the run, kept beside the program state:                      *)
(*   phase   "pushing" while every call since New was a successful Push of *)
(*           a key not in the container; "taking" ("popping") while those  *)
(*           pushes were followed by successful Take (Pop) calls only;     *)
(*           "other" after anything else;                                  *)
(*   pushed  the <<key, value>> pairs of those pushes, in call order;      *)
(*   got     the items the Take/Pop calls returned, in call order;         *)
(*   evicted whether one of those pushes evicted an entry.                 *)

ScenInit == [phase |-> "pushing", pushed |-> <<>>, got |-> <<>>, evicted |-> FALSE]

ScenOther == [phase |-> "other", pushed |-> <<>>, got |-> <<>>, evicted |-> FALSE]

ScenPush(key, value, r) ==
    IF /\ scen.phase = "pushing"
       /\ r.err = ErrNone
       /\ key \notin DOMAIN items
       /\ Len(scen.pushed) < MaxScen
    THEN [scen EXCEPT !.pushed = Append(@, <<key, value>>),
                      !.evicted = @ \/ r.taken > 0]
    ELSE ScenOther

ScenRemove(phase, r) ==
    IF /\ scen.phase \in {"pushing", phase}
       /\ scen.pushed # <<>>
       /\ r.err = ErrNone
       /\ Len(scen.got) < Len(scen.pushed)
    THEN [scen EXCEPT !.phase = phase, !.got = Append(@, r.item)]
    ELSE ScenOther

-----------------------------------------------------------------------------
(* The state after New(maxSize, sizeChecker); New exits the process for    *)
(* maxSize <= 0.                                                           *)

(* The arguments and local variables of a caller that runs no method *)
LocInit == [op |-> "", key |-> "", value |-> NilValue, size |-> 0,
            itemSize |-> 0, index |-> 0, rkey |-> "", item |-> NilValue, cur |-> 0]

NoCall == [op |-> "New", key |-> "", value |-> NilValue, size |-> 0]

Init ==
    /\ items = <<>>
    /\ keys = <<>>
    /\ sizeChecker \in BOOLEAN
    /\ linearSizes \in MaxSizes
    /\ linearCurrentSize = 0
    /\ call = NoCall
    /\ result = [item |-> NilValue, err |-> ErrNone]
    /\ scen = ScenInit
    /\ visited = <<>>
    /\ pc = [p \in Procs |-> "idle"]
    /\ loc = [p \in Procs |-> LocInit]
    /\ sizeMux = Free
    /\ keysMux = Free
    /\ rets = [p \in Procs |-> <<>>]

(* A call that panicked or never returned ends the run. *)
Running == result.err \notin {ErrPanic, ErrHang}

Within(st) == Len(st.keys) <= MaxKeys /\ st.cur <= MaxSize

Install(st) ==
    /\ items' = st.items
    /\ keys' = st.keys
    /\ linearCurrentSize' = st.cur

Push(key, value) ==
    LET r == PushIn(State, key, value, linearSizes, sizeChecker) IN
    /\ Running
    /\ Within(r.st)
    /\ Install(r.st)
    /\ call' = [op |-> "Push", key |-> key, value |-> value, size |-> 0]
    /\ result' = [item |-> NilValue, err |-> r.err]
    /\ scen' = ScenPush(key, value, r)
    /\ visited' = <<>>
    /\ UNCHANGED <<sizeChecker, linearSizes>>
    /\ UNCHANGED concVars

Pop ==
    LET r == PopIn(State) IN
    /\ Running
    /\ Install(r.st)
    /\ call' = [op |-> "Pop", key |-> "", value |-> NilValue, size |-> 0]
    /\ result' = [item |-> r.item, err |-> r.err]
    /\ scen' = ScenRemove("popping", r)
    /\ visited' = <<>>
    /\ UNCHANGED <<sizeChecker, linearSizes>>
    /\ UNCHANGED concVars

Take ==
    LET r == TakeIn(State) IN
    /\ Running
    /\ Install(r.st)
    /\ call' = [op |-> "Take", key |-> "", value |-> NilValue, size |-> 0]
    /\ result' = [item |-> r.item, err |-> r.err]
    /\ scen' = ScenRemove("taking", r)
    /\ visited' = <<>>
    /\ UNCHANGED <<sizeChecker, linearSizes>>
    /\ UNCHANGED concVars

(* A Get that treats the index -1 of a missing key as the last element *)
GetInPopOnMiss(st, key) ==
    IF IsEmptyIn(st)
    THEN [item |-> NilValue, size |-> 0, err |-> ErrEmpty, st |-> st]
    ELSE LET f == findIndexByItem(key, st.keys) IN
         IF ~f.found
         THEN removeByIndex(st, Len(st.keys) - 1)
         ELSE removeByIndex(st, f.index)

GetIn(st, key) ==
    IF IsEmptyIn(st)
    THEN [item |-> NilValue, size |-> 0, err |-> ErrEmpty, st |-> st]
    ELSE LET f == findIndexByItem(key, st.keys) IN
         IF ~f.found
         THEN [item |-> NilValue, size |-> 0, err |-> ErrNone, st |-> st]
         ELSE removeByIndex(st, f.index)

Get(key) ==
    LET r == GetIn(State, key) IN
    /\ Running
    /\ Install(r.st)
    /\ call' = [op |-> "Get", key |-> key, value |-> NilValue, size |-> 0]
    /\ result' = [item |-> r.item, err |-> r.err]
    /\ scen' = ScenOther
    /\ visited' = <<>>
    /\ UNCHANGED <<sizeChecker, linearSizes>>
    /\ UNCHANGED concVars

(* A Read without the check for an empty container *)
ReadInNoEmptyCheck(st, key) ==
    IF ~Load(st, key) THEN [item |-> NilValue, err |-> ErrNone]
    ELSE [item |-> st.items[key], err |-> ErrNone]

ReadIn(st, key) ==
    IF IsEmptyIn(st) THEN [item |-> NilValue, err |-> ErrEmpty]
    ELSE IF ~Load(st, key) THEN [item |-> NilValue, err |-> ErrNone]
    ELSE [item |-> st.items[key], err |-> ErrNone]

(* A Read that removes the entry it returns, as Get does *)
ReadRemoves(key) ==
    LET r == GetIn(State, key) IN
    /\ Running
    /\ Install(r.st)
    /\ call' = [op |-> "Read", key |-> key, value |-> NilValue, size |-> 0]
    /\ result' = [item |-> r.item, err |-> r.err]
    /\ scen' = ScenOther
    /\ visited' = <<>>
    /\ UNCHANGED <<sizeChecker, linearSizes>>
    /\ UNCHANGED concVars

Read(key) ==
    /\ Running
    /\ call' = [op |-> "Read", key |-> key, value |-> NilValue, size |-> 0]
    /\ result' = ReadIn(State, key)
    /\ scen' = ScenOther
    /\ visited' = <<>>
    /\ UNCHANGED <<items, keys, linearCurrentSize, sizeChecker, linearSizes>>
    /\ UNCHANGED concVars

(* An Update that stores with LoadOrStore, as Push does *)
UpdateInLoadOrStore(st, key, value, limit) ==
    IF key = "" /\ value = NilValue THEN [err |-> ErrInvalid, st |-> st]
    ELSE IF IsEmptyIn(st) THEN [err |-> ErrEmpty, st |-> st]
    ELSE IF calculateItemSizePanics(value) THEN [err |-> ErrPanic, st |-> st]
    ELSE LET newItemSize == calculateItemSize(key, value) IN
         IF newItemSize > limit \/ IsEmptyIn(st)
         THEN [err |-> ErrEmptyOrNoSpace, st |-> st]
         ELSE LET e == IsExitsIn(st, key) IN
              IF ~e.exits THEN [err |-> ErrNotExist, st |-> st]
              ELSE [err |-> ErrNone,
                    st |-> [items |-> LoadOrStore(st.items, key, value),
                            keys |-> st.keys,
                            cur |-> st.cur - e.size + newItemSize]]

UpdateIn(st, key, value, limit) ==
    IF key = "" /\ value = NilValue THEN [err |-> ErrInvalid, st |-> st]
    ELSE IF IsEmptyIn(st) THEN [err |-> ErrEmpty, st |-> st]
    ELSE IF calculateItemSizePanics(value) THEN [err |-> ErrPanic, st |-> st]
    ELSE LET newItemSize == calculateItemSize(key, value) IN
         IF newItemSize > limit \/ IsEmptyIn(st)
         THEN [err |-> ErrEmptyOrNoSpace, st |-> st]
         ELSE LET e == IsExitsIn(st, key) IN
              IF ~e.exits THEN [err |-> ErrNotExist, st |-> st]
              ELSE [err |-> ErrNone,
                    st |-> [items |-> Store(st.items, key, value),
                            keys |-> st.keys,
                            cur |-> st.cur - e.size + newItemSize]]

Update(key, value) ==
    LET r == UpdateIn(State, key, value, linearSizes) IN
    /\ Running
    /\ Within(r.st)
    /\ Install(r.st)
    /\ call' = [op |-> "Update", key |-> key, value |-> value, size |-> 0]
    /\ result' = [item |-> NilValue, err |-> r.err]
    /\ scen' = ScenOther
    /\ visited' = <<>>
    /\ UNCHANGED <<sizeChecker, linearSizes>>
    /\ UNCHANGED concVars

(* A SetLinearSizes without the check of its argument *)
SetLinearSizesNoCheck(n) ==
    /\ Running
    /\ linearSizes' = n
    /\ call' = [op |-> "SetLinearSizes", key |-> "", value |-> NilValue, size |-> n]
    /\ result' = [item |-> NilValue, err |-> ErrNone]
    /\ scen' = ScenOther
    /\ visited' = <<>>
    /\ UNCHANGED <<items, keys, linearCurrentSize, sizeChecker>>
    /\ UNCHANGED concVars

SetLinearSizes(n) ==
    /\ Running
    /\ linearSizes' = IF n <= 0 THEN linearSizes ELSE n
    /\ call' = [op |-> "SetLinearSizes", key |-> "", value |-> NilValue, size |-> n]
    /\ result' = [item |-> NilValue, err |-> IF n <= 0 THEN ErrBadSize ELSE ErrNone]
    /\ scen' = ScenOther
    /\ visited' = <<>>
    /\ UNCHANGED <<items, keys, linearCurrentSize, sizeChecker>>
    /\ UNCHANGED concVars

(* sync.Map.Range: the visitor is called once for each key of the map, in   *)
(* an order the map chooses, until it returns false.  order is that order  *)
(* and stop says whether the visitor returns false (at its first call).    *)
Orders(its) ==
    {o \in [1..Cardinality(DOMAIN its) -> DOMAIN its] :
        \A i, j \in DOMAIN o : o[i] = o[j] => i = j}

RangeIn(its, order, stop) ==
    LET calls == [i \in DOMAIN order |-> <<order[i], its[order[i]]>>]
    IN  IF stop /\ Len(calls) > 0 THEN SubSeq(calls, 1, 1) ELSE calls

Range(order, stop) ==
    /\ Running
    /\ call' = [op |-> "Range", key |-> "", value |-> NilValue,
                size |-> IF stop THEN 0 ELSE 1]
    /\ result' = [item |-> NilValue, err |-> ErrNone]
    /\ scen' = ScenOther
    /\ visited' = RangeIn(items, order, stop)
    /\ UNCHANGED <<items, keys, linearCurrentSize, sizeChecker, linearSizes>>
    /\ UNCHANGED concVars

(* The getters.  What a getter returns is recorded in result.item as a       *)
(* number (Num), and for IsExits as the size with the found flag (Probe).  *)
Num(n) == [kind |-> "int", text |-> "", len |-> n]

Probe(e) == [kind |-> IF e.exits THEN "true" ELSE "false", text |-> "", len |-> e.size]

(* A getter's call: nothing but call and result changes *)
Getter(op, key, item) ==
    /\ Running
    /\ call' = [op |-> op, key |-> key, value |-> NilValue, size |-> 0]
    /\ result' = [item |-> item, err |-> ErrNone]
    /\ scen' = ScenOther
    /\ visited' = <<>>
    /\ UNCHANGED <<items, keys, linearCurrentSize, sizeChecker, linearSizes>>
    /\ UNCHANGED concVars

CallIsExits(key) == Getter("IsExits", key, Probe(IsExits(key)))

CallIsEmpty == Getter("IsEmpty", "", Num(IF IsEmpty THEN 1 ELSE 0))

CallGetNumberOfKeys == Getter("GetNumberOfKeys", "", Num(GetNumberOfKeys))

CallGetLinearSizes == Getter("GetLinearSizes", "", Num(GetLinearSizes))

CallGetLinearCurrentSize == Getter("GetLinearCurrentSize", "", Num(GetLinearCurrentSize))

Next ==
    \/ \E key \in Keys, value \in Values : Push(key, value)
    \/ Pop
    \/ Take
    \/ \E key \in Keys : Get(key)
    \/ \E key \in Keys : Read(key)
    \/ \E key \in Keys, value \in Values : Update(key, value)
    \/ \E n \in SizeArgs : SetLinearSizes(n)
    \/ \E order \in Orders(items), stop \in BOOLEAN : Range(order, stop)

Spec == Init /\ [][Next]_vars

(* The sequential model with the calls of the getters as steps of their    *)
(* own.                                                                    *)
NextQuery ==
    \/ Next
    \/ \E key \in Keys : CallIsExits(key)
    \/ CallIsEmpty
    \/ CallGetNumberOfKeys
    \/ CallGetLinearSizes
    \/ CallGetLinearCurrentSize

SpecQuery == Init /\ [][NextQuery]_vars

-----------------------------------------------------------------------------
(* The concurrent model.  Each caller of Procs makes up to MaxCalls calls. *)
(* A step of a caller is one access to a shared field, with the local      *)
(* computation around it; pc names the access the caller makes next:       *)
(*   P_*  Push,  R_*  removeByIndex (from Pop, Take, Get, or the Take of    *)
(*   the eviction loop of Push),  G_find  Get,  Rd_load  Read,              *)
(*   U_*  Update,  S_*  SetLinearSizes.                                     *)
(* Lock() is a step of its own that waits until the mutex is free; the one *)
(* statement under the mutex and Unlock() are the next step.  The reads of *)
(* l.keys, l.linearCurrentSize and l.linearSizes outside the mutexes see   *)
(* the value the field has when the step is taken, which may be stale when *)
(* the caller uses it.  removeItemByIndex shifts the elements in place     *)
(* under the key mutex; an unlocked read of l.keys[index] or a search of   *)
(* findIndexByItem sees the slice before or after the whole shift.  An     *)
(* unrecovered panic ends the program.                                     *)

InitConc ==
    /\ items = <<>>
    /\ keys = <<>>
    /\ sizeChecker \in BOOLEAN
    /\ linearSizes \in ConcSizes
    /\ linearCurrentSize = 0
    /\ call = NoCall
    /\ result = [item |-> NilValue, err |-> ErrNone]
    /\ scen = ScenInit
    /\ visited = <<>>
    /\ pc = [p \in Procs |-> "idle"]
    /\ loc = [p \in Procs |-> LocInit]
    /\ sizeMux = Free
    /\ keysMux = Free
    /\ rets = [p \in Procs |-> <<>>]

Panicked == \E p \in Procs : \E i \in 1..Len(rets[p]) : rets[p][i].err = ErrPanic

CanCall(p) == ~Panicked /\ pc[p] = "idle" /\ Len(rets[p]) < MaxCalls

At(p, label) == ~Panicked /\ pc[p] = label

NewCall(op, key, value, size) ==
    [LocInit EXCEPT !.op = op, !.key = key, !.value = value, !.size = size]

Goto(p, label, l) ==
    /\ pc' = [pc EXCEPT ![p] = label]
    /\ loc' = [loc EXCEPT ![p] = l]
    /\ UNCHANGED rets

(* The call l of caller p returns (item, err) *)
Return(p, l, item, err) ==
    /\ pc' = [pc EXCEPT ![p] = "idle"]
    /\ loc' = [loc EXCEPT ![p] = LocInit]
    /\ rets' = [rets EXCEPT ![p] = Append(@, [op |-> l.op, key |-> l.key, value |-> l.value,
                                                size |-> l.size, item |-> item, err |-> err])]

(* Push: the checks of the arguments and of the item size *)
PushBegin(p, key, value) ==
    LET l == NewCall("Push", key, value, 0) IN
    /\ CanCall(p)
    /\ IF key = "" /\ value = NilValue THEN Return(p, l, NilValue, ErrInvalid)
       ELSE IF calculateItemSizePanics(value) THEN Return(p, l, NilValue, ErrPanic)
       ELSE LET itemSize == calculateItemSize(key, value) IN
            IF itemSize > linearSizes THEN Return(p, l, NilValue, ErrNoSpace)
            ELSE Goto(p, IF sizeChecker THEN "P_loop" ELSE "P_store",
                      [l EXCEPT !.itemSize = itemSize])
    /\ UNCHANGED <<items, keys, sizeChecker, linearSizes, linearCurrentSize, sizeMux, keysMux>>
    /\ UNCHANGED seqVars

(* Push: the loop test reads l.linearCurrentSize ... *)
P_loop(p) ==
    /\ At(p, "P_loop")
    /\ Goto(p, "P_cmp", [loc[p] EXCEPT !.cur = linearCurrentSize])
    /\ UNCHANGED <<items, keys, sizeChecker, linearSizes, linearCurrentSize, sizeMux, keysMux>>
    /\ UNCHANGED seqVars

(* ... and l.linearSizes, and calls Take when the item does not fit *)
P_cmp(p) ==
    /\ At(p, "P_cmp")
    /\ IF loc[p].cur + loc[p].itemSize > linearSizes
       THEN Goto(p, "R_empty", [loc[p] EXCEPT !.index = 0, !.cur = 0])
       ELSE Goto(p, "P_store", [loc[p] EXCEPT !.cur = 0])
    /\ UNCHANGED <<items, keys, sizeChecker, linearSizes, linearCurrentSize, sizeMux, keysMux>>
    /\ UNCHANGED seqVars

P_store(p) ==
    /\ At(p, "P_store")
    /\ items' = LoadOrStore(items, loc[p].key, loc[p].value)
    /\ Goto(p, "P_lockS", loc[p])
    /\ UNCHANGED <<keys, sizeChecker, linearSizes, linearCurrentSize, sizeMux, keysMux>>
    /\ UNCHANGED seqVars

(* A Push that adds the item size to the running size it read in the loop  *)
(* test.                                                                   *)
P_sizeStale(p) ==
    /\ At(p, "P_size")
    /\ linearCurrentSize' = loc[p].cur + loc[p].itemSize
    /\ sizeMux' = Free
    /\ Goto(p, "P_lockK", loc[p])
    /\ UNCHANGED <<items, keys, sizeChecker, linearSizes, keysMux>>
    /\ UNCHANGED seqVars

P_size(p) ==
    /\ At(p, "P_size")
    /\ linearCurrentSize' = linearCurrentSize + loc[p].itemSize
    /\ sizeMux' = Free
    /\ Goto(p, "P_lockK", loc[p])
    /\ UNCHANGED <<items, keys, sizeChecker, linearSizes, keysMux>>
    /\ UNCHANGED seqVars

P_keys(p) ==
    /\ At(p, "P_keys")
    /\ keys' = Append(keys, loc[p].key)
    /\ keysMux' = Free
    /\ Return(p, loc[p], NilValue, ErrNone)
    /\ UNCHANGED <<items, sizeChecker, linearSizes, linearCurrentSize, sizeMux>>
    /\ UNCHANGED seqVars

(* Pop: the index is len(l.keys) - 1 at the time of the call *)
PopBegin(p) ==
    /\ CanCall(p)
    /\ Goto(p, "R_empty", [NewCall("Pop", "", NilValue, 0) EXCEPT !.index = Len(keys) - 1])
    /\ UNCHANGED <<items, keys, sizeChecker, linearSizes, linearCurrentSize, sizeMux, keysMux>>
    /\ UNCHANGED seqVars

(* Take: removeByIndex(0), up to its check of IsEmpty *)
TakeBegin(p) ==
    LET l == NewCall("Take", "", NilValue, 0) IN
    /\ CanCall(p)
    /\ IF Len(keys) = 0 THEN Return(p, l, NilValue, ErrEmpty)
       ELSE Goto(p, "R_key", l)
    /\ UNCHANGED <<items, keys, sizeChecker, linearSizes, linearCurrentSize, sizeMux, keysMux>>
    /\ UNCHANGED seqVars

(* removeByIndex: the check of IsEmpty.  The Take of the eviction loop     *)
(* returns its error to Push, which returns it.                            *)
R_empty(p) ==
    /\ At(p, "R_empty")
    /\ IF Len(keys) = 0 THEN Return(p, loc[p], NilValue, ErrEmpty)
       ELSE Goto(p, "R_key", loc[p])
    /\ UNCHANGED <<items, keys, sizeChecker, linearSizes, linearCurrentSize, sizeMux, keysMux>>
    /\ UNCHANGED seqVars

(* removeByIndex: key := l.keys[index], a panic for an index out of range *)
R_key(p) ==
    /\ At(p, "R_key")
    /\ IF loc[p].index < 0 \/ loc[p].index >= Len(keys)
       THEN Return(p, loc[p], NilValue, ErrPanic)
       ELSE Goto(p, "R_load", [loc[p] EXCEPT !.rkey = keys[loc[p].index + 1]])
    /\ UNCHANGED <<items, keys, sizeChecker, linearSizes, linearCurrentSize, sizeMux, keysMux>>
    /\ UNCHANGED seqVars

(* removeByIndex: the Load; without a value it returns (nil, 0, nil), with *)
(* which the eviction loop of Push goes on.                                *)
R_load(p) ==
    /\ At(p, "R_load")
    /\ IF loc[p].rkey \notin DOMAIN items
       THEN IF loc[p].op = "Push"
            THEN Goto(p, "P_loop", [loc[p] EXCEPT !.rkey = ""])
            ELSE Return(p, loc[p], NilValue, ErrNone)
       ELSE Goto(p, "R_delete", [loc[p] EXCEPT !.item = items[loc[p].rkey]])
    /\ UNCHANGED <<items, keys, sizeChecker, linearSizes, linearCurrentSize, sizeMux, keysMux>>
    /\ UNCHANGED seqVars

R_delete(p) ==
    /\ At(p, "R_delete")
    /\ items' = Delete(items, loc[p].rkey)
    /\ Goto(p, "R_lockK", loc[p])
    /\ UNCHANGED <<keys, sizeChecker, linearSizes, linearCurrentSize, sizeMux, keysMux>>
    /\ UNCHANGED seqVars

(* A removeByIndex that does not unlock the key mutex *)
R_keysNoUnlock(p) ==
    /\ At(p, "R_keys")
    /\ keys' = removeItemByIndex(keys, loc[p].index)
    /\ Goto(p, "R_lockS", loc[p])
    /\ UNCHANGED <<items, sizeChecker, linearSizes, linearCurrentSize, sizeMux, keysMux>>
    /\ UNCHANGED seqVars

R_keys(p) ==
    /\ At(p, "R_keys")
    /\ keys' = removeItemByIndex(keys, loc[p].index)
    /\ keysMux' = Free
    /\ Goto(p, "R_lockS", loc[p])
    /\ UNCHANGED <<items, sizeChecker, linearSizes, linearCurrentSize, sizeMux>>
    /\ UNCHANGED seqVars

R_size(p) ==
    /\ At(p, "R_size")
    /\ linearCurrentSize' = linearCurrentSize - calculateItemSize(loc[p].rkey, loc[p].item)
    /\ sizeMux' = Free
    /\ IF loc[p].op = "Push"
       THEN Goto(p, "P_loop", [loc[p] EXCEPT !.rkey = "", !.item = NilValue])
       ELSE Return(p, loc[p], loc[p].item, ErrNone)
    /\ UNCHANGED <<items, keys, sizeChecker, linearSizes, keysMux>>
    /\ UNCHANGED seqVars

(* Get: the check of IsEmpty *)
GetBegin(p, key) ==
    LET l == NewCall("Get", key, NilValue, 0) IN
    /\ CanCall(p)
    /\ IF Len(keys) = 0 THEN Return(p, l, NilValue, ErrEmpty)
       ELSE Goto(p, "G_find", l)
    /\ UNCHANGED <<items, keys, sizeChecker, linearSizes, linearCurrentSize, sizeMux, keysMux>>
    /\ UNCHANGED seqVars

G_find(p) ==
    LET f == findIndexByItem(loc[p].key, keys) IN
    /\ At(p, "G_find")
    /\ IF ~f.found THEN Return(p, loc[p], NilValue, ErrNone)
       ELSE Goto(p, "R_empty", [loc[p] EXCEPT !.index = f.index])
    /\ UNCHANGED <<items, keys, sizeChecker, linearSizes, linearCurrentSize, sizeMux, keysMux>>
    /\ UNCHANGED seqVars

(* Read: the check of IsEmpty *)
ReadBegin(p, key) ==
    LET l == NewCall("Read", key, NilValue, 0) IN
    /\ CanCall(p)
    /\ IF Len(keys) = 0 THEN Return(p, l, NilValue, ErrEmpty)
       ELSE Goto(p, "Rd_load", l)
    /\ UNCHANGED <<items, keys, sizeChecker, linearSizes, linearCurrentSize, sizeMux, keysMux>>
    /\ UNCHANGED seqVars

Rd_load(p) ==
    /\ At(p, "Rd_load")
    /\ IF loc[p].key \notin DOMAIN items THEN Return(p, loc[p], NilValue, ErrNone)
       ELSE Return(p, loc[p], items[loc[p].key], ErrNone)
    /\ UNCHANGED <<items, keys, sizeChecker, linearSizes, linearCurrentSize, sizeMux, keysMux>>
    /\ UNCHANGED seqVars

(* Update: the check of the arguments and the first check of IsEmpty *)
UpdateBegin(p, key, value) ==
    LET l == NewCall("Update", key, value, 0) IN
    /\ CanCall(p)
    /\ IF key = "" /\ value = NilValue THEN Return(p, l, NilValue, ErrInvalid)
       ELSE IF Len(keys) = 0 THEN Return(p, l, NilValue, ErrEmpty)
       ELSE IF calculateItemSizePanics(value) THEN Return(p, l, NilValue, ErrPanic)
       ELSE Goto(p, "U_limit", [l EXCEPT !.itemSize = calculateItemSize(key, value)])
    /\ UNCHANGED <<items, keys, sizeChecker, linearSizes, linearCurrentSize, sizeMux, keysMux>>
    /\ UNCHANGED seqVars

U_limit(p) ==
    /\ At(p, "U_limit")
    /\ IF loc[p].itemSize > linearSizes THEN Return(p, loc[p], NilValue, ErrEmptyOrNoSpace)
       ELSE Goto(p, "U_empty", loc[p])
    /\ UNCHANGED <<items, keys, sizeChecker, linearSizes, linearCurrentSize, sizeMux, keysMux>>
    /\ UNCHANGED seqVars

U_empty(p) ==
    /\ At(p, "U_empty")
    /\ IF Len(keys) = 0 THEN Return(p, loc[p], NilValue, ErrEmptyOrNoSpace)
       ELSE Goto(p, "U_exits", loc[p])
    /\ UNCHANGED <<items, keys, sizeChecker, linearSizes, linearCurrentSize, sizeMux, keysMux>>
    /\ UNCHANGED seqVars

(* Update: currentSize, exits := l.IsExits(key) *)
U_exits(p) ==
    LET e == IsExitsIn(State, loc[p].key) IN
    /\ At(p, "U_exits")
    /\ IF ~e.exits THEN Return(p, loc[p], NilValue, ErrNotExist)
       ELSE Goto(p, "U_store", [loc[p] EXCEPT !.cur = e.size])
    /\ UNCHANGED <<items, keys, sizeChecker, linearSizes, linearCurrentSize, sizeMux, keysMux>>
    /\ UNCHANGED seqVars

U_store(p) ==
    /\ At(p, "U_store")
    /\ items' = Store(items, loc[p].key, loc[p].value)
    /\ Goto(p, "U_lockS", loc[p])
    /\ UNCHANGED <<keys, sizeChecker, linearSizes, linearCurrentSize, sizeMux, keysMux>>
    /\ UNCHANGED seqVars

U_size(p) ==
    /\ At(p, "U_size")
    /\ linearCurrentSize' = linearCurrentSize - loc[p].cur + loc[p].itemSize
    /\ sizeMux' = Free
    /\ Return(p, loc[p], NilValue, ErrNone)
    /\ UNCHANGED <<items, keys, sizeChecker, linearSizes, keysMux>>
    /\ UNCHANGED seqVars

(* SetLinearSizes: the check of the argument *)
SetBegin(p, n) ==
    LET l == NewCall("SetLinearSizes", "", NilValue, n) IN
    /\ CanCall(p)
    /\ IF n <= 0 THEN Return(p, l, NilValue, ErrBadSize)
       ELSE Goto(p, "S_lockS", l)
    /\ UNCHANGED <<items, keys, sizeChecker, linearSizes, linearCurrentSize, sizeMux, keysMux>>
    /\ UNCHANGED seqVars

S_set(p) ==
    /\ At(p, "S_set")
    /\ linearSizes' = loc[p].size
    /\ sizeMux' = Free
    /\ Return(p, loc[p], NilValue, ErrNone)
    /\ UNCHANGED <<items, keys, sizeChecker, linearCurrentSize, keysMux>>
    /\ UNCHANGED seqVars

(* The statement each Lock() guards *)
AfterLockSize(label) ==
    CASE label = "P_lockS" -> "P_size"
      [] label = "R_lockS" -> "R_size"
      [] label = "U_lockS" -> "U_size"
      [] label = "S_lockS" -> "S_set"

AfterLockKeys(label) ==
    CASE label = "P_lockK" -> "P_keys"
      [] label = "R_lockK" -> "R_keys"

(* l.sizeMux.Lock() *)
LockSize(p) ==
    /\ ~Panicked
    /\ pc[p] \in {"P_lockS", "R_lockS", "U_lockS", "S_lockS"}
    /\ sizeMux = Free
    /\ sizeMux' = p
    /\ Goto(p, AfterLockSize(pc[p]), loc[p])
    /\ UNCHANGED <<items, keys, sizeChecker, linearSizes, linearCurrentSize, keysMux>>
    /\ UNCHANGED seqVars

(* l.keysMux.Lock() *)
LockKeys(p) ==
    /\ ~Panicked
    /\ pc[p] \in {"P_lockK", "R_lockK"}
    /\ keysMux = Free
    /\ keysMux' = p
    /\ Goto(p, AfterLockKeys(pc[p]), loc[p])
    /\ UNCHANGED <<items, keys, sizeChecker, linearSizes, linearCurrentSize, sizeMux>>
    /\ UNCHANGED seqVars

NextConc ==
    \/ \E p \in Procs : PushBegin(p, OwnKey(p), OwnValue(p))
    \/ \E p \in Procs : P_loop(p)
    \/ \E p \in Procs : P_cmp(p)
    \/ \E p \in Procs : P_store(p)
    \/ \E p \in Procs : P_size(p)
    \/ \E p \in Procs : P_keys(p)
    \/ \E p \in Procs : PopBegin(p)
    \/ \E p \in Procs : TakeBegin(p)
    \/ \E p \in Procs : R_empty(p)
    \/ \E p \in Procs : R_key(p)
    \/ \E p \in Procs : R_load(p)
    \/ \E p \in Procs : R_delete(p)
    \/ \E p \in Procs : R_keys(p)
    \/ \E p \in Procs : R_size(p)
    \/ \E p \in Procs, key \in ConcKeys : GetBegin(p, key)
    \/ \E p \in Procs : G_find(p)
    \/ \E p \in Procs, key \in ConcKeys : ReadBegin(p, key)
    \/ \E p \in Procs : Rd_load(p)
    \/ \E p \in Procs, key \in ConcKeys, value \in ConcValues : UpdateBegin(p, key, value)
    \/ \E p \in Procs : U_limit(p)
    \/ \E p \in Procs : U_empty(p)
    \/ \E p \in Procs : U_exits(p)
    \/ \E p \in Procs : U_store(p)
    \/ \E p \in Procs : U_size(p)
    \/ \E p \in Procs, n \in ConcSizeArgs : SetBegin(p, n)
    \/ \E p \in Procs : S_set(p)
    \/ \E p \in Procs : LockSize(p)
    \/ \E p \in Procs : LockKeys(p)

SpecConc == InitConc /\ [][NextConc]_vars

-----------------------------------------------------------------------------
(* Properties *)

Elements(seq) == {seq[i] : i \in 1..Len(seq)}

RECURSIVE SumCost(_, _)
SumCost(its, ks) ==
    IF ks = {} THEN 0
    ELSE LET k == CHOOSE x \in ks : TRUE
         IN  calculateItemSize(k, its[k]) + SumCost(its, ks \ {k})

(* The sum of the costs of the entries the value store holds *)
LiveCost == SumCost(items, DOMAIN items)

Min(a, b) == IF a <= b THEN a ELSE b

PushedCost(i) == calculateItemSize(scen.pushed[i][1], scen.pushed[i][2])

(* C1: after every completed operation the running size equals the sum of  *)
(* the costs of the live entries.                                          *)
SizeAccounting == GetLinearCurrentSize = LiveCost

(* C2: between operations the keys of the value store are exactly the keys *)
(* of the ordered key sequence.                                            *)
KeySetsAgree == DOMAIN items = Elements(keys)

(* C3: the ordered key sequence holds no key twice, so the key count is    *)
(* the number of distinct live keys.                                       *)
NoDuplicateKeys ==
    /\ \A i, j \in 1..Len(keys) : keys[i] = keys[j] => i = j
    /\ GetNumberOfKeys = Cardinality(DOMAIN items)

(* C4: after pushes of new distinct keys with no eviction, successive Take *)
(* calls return the pushed values in push order and successive Pop calls   *)
(* return them in reverse push order, each call lowering the key count by  *)
(* one.                                                                    *)
OrderPreservation ==
    /\ (scen.phase = "pushing" /\ ~scen.evicted) =>
          GetNumberOfKeys = Len(scen.pushed)
    /\ (scen.phase = "taking" /\ ~scen.evicted) =>
          /\ result.err = ErrNone
          /\ scen.got = [i \in 1..Len(scen.got) |-> scen.pushed[i][2]]
          /\ GetNumberOfKeys = Len(scen.pushed) - Len(scen.got)
    /\ (scen.phase = "popping" /\ ~scen.evicted) =>
          /\ result.err = ErrNone
          /\ scen.got = [i \in 1..Len(scen.got) |->
                            scen.pushed[Len(scen.pushed) - i + 1][2]]
          /\ GetNumberOfKeys = Len(scen.pushed) - Len(scen.got)

(* C4 witness: three entries, one of them the empty string, pushed and     *)
(* then all taken.                                                         *)
OrderPreservationWitness ==
    /\ scen.phase = "taking"
    /\ ~scen.evicted
    /\ Len(scen.pushed) = 3
    /\ Len(scen.got) = 3
    /\ scen.got[1] # scen.got[3]
    /\ Str("") \in Elements(scen.got)

(* C5: a Push of a key that is already present leaves the key count and    *)
(* the order as they were and stores the new value.                        *)
DuplicatePushKeepsPosition ==
    [][(/\ call'.op = "Push"
        /\ result'.err = ErrNone
        /\ call'.key \in DOMAIN items)
       => (/\ GetNumberOfKeys' = GetNumberOfKeys
           /\ keys' = keys
           /\ items'[call'.key] = call'.value)]_vars

(* C6: a successful Push(k, v) followed at once by Read(k) returns v with  *)
(* no error, and the Read leaves the key count unchanged.                  *)
PushThenRead ==
    [][(/\ call.op = "Push"
        /\ result.err = ErrNone
        /\ call'.op = "Read"
        /\ call'.key = call.key)
       => (/\ result' = [item |-> call.value, err |-> ErrNone]
           /\ GetNumberOfKeys' = GetNumberOfKeys)]_vars

(* C7: a successful Push(k, v) followed by Get(k) returns v with no error, *)
(* lowers the key count by one and leaves k not found.                     *)
PushThenGet ==
    [][(/\ call.op = "Push"
        /\ result.err = ErrNone
        /\ call'.op = "Get"
        /\ call'.key = call.key)
       => (/\ result' = [item |-> call.value, err |-> ErrNone]
           /\ GetNumberOfKeys' = GetNumberOfKeys - 1
           /\ call.key \notin DOMAIN items')]_vars

(* C8: with eviction disabled, a Push whose admission would make the total *)
(* exceed the limit fails with the not-enough-space error and changes      *)
(* nothing.                                                                *)
CapacityEnforcement ==
    [][(/\ ~sizeChecker
        /\ call'.op = "Push"
        /\ call'.key # ""
        /\ call'.value # NilValue
        /\ LET cost == calculateItemSize(call'.key, call'.value)
               delta == cost - IsExits(call'.key).size
           IN  linearCurrentSize + delta > linearSizes)
       => (/\ result'.err = ErrNoSpace
           /\ UNCHANGED <<items, keys, linearCurrentSize>>)]_vars

(* C9: with eviction enabled and limit C, pushes of new entries of one     *)
(* cost c < C never leave the running size above C, and the key count is   *)
(* the number of pushes until it reaches floor(C/c), where it stays.       *)
EvictionUnderPressure ==
    (/\ scen.phase = "pushing"
     /\ sizeChecker
     /\ scen.pushed # <<>>
     /\ PushedCost(1) > 0
     /\ PushedCost(1) < linearSizes
     /\ \A i \in 1..Len(scen.pushed) : PushedCost(i) = PushedCost(1))
    => /\ GetLinearCurrentSize <= linearSizes
       /\ GetNumberOfKeys = Min(Len(scen.pushed), linearSizes \div PushedCost(1))

(* C9 witness: a saturated container after pushes that evicted, holding    *)
(* floor(C/c) = 2 entries after 4 pushes.                                  *)
EvictionUnderPressureWitness ==
    /\ scen.phase = "pushing"
    /\ sizeChecker
    /\ scen.evicted
    /\ Len(scen.pushed) = 4
    /\ \A i \in 1..Len(scen.pushed) : PushedCost(i) = 1
    /\ linearSizes = 2
    /\ GetNumberOfKeys = 2

(* C10: with eviction enabled, a Push of a non-empty key and a present     *)
(* value whose cost does not exceed the limit succeeds.                    *)
EvictingPushSucceeds ==
    [][(/\ sizeChecker
        /\ call'.op = "Push"
        /\ call'.key # ""
        /\ call'.value # NilValue
        /\ calculateItemSize(call'.key, call'.value) <= linearSizes)
       => result'.err = ErrNone]_vars

(* The container after the step *)
StateNext == [items |-> items', keys |-> keys', cur |-> linearCurrentSize']

(* C11: a Push whose own cost exceeds the limit fails with the             *)
(* not-enough-space error in both eviction modes and changes nothing.      *)
OversizedPushRejected ==
    [][(/\ call'.op = "Push"
        /\ call'.value # NilValue
        /\ calculateItemSize(call'.key, call'.value) > linearSizes)
       => (/\ result'.err = ErrNoSpace
           /\ UNCHANGED <<items, keys, linearCurrentSize>>)]_vars

(* C11 witness: an oversized Push was refused on a container that holds    *)
(* entries and evicts on overflow.                                         *)
OversizedPushRejectedWitness ==
    /\ call.op = "Push"
    /\ result.err = ErrNoSpace
    /\ sizeChecker
    /\ keys # <<>>
    /\ calculateItemSize(call.key, call.value) > linearSizes

(* C12: a Push with an empty key or with an absent value fails with the    *)
(* invalid-argument error and changes nothing, so no live entry has an     *)
(* empty key.                                                              *)
PushRejectsEmptyArguments ==
    [][(/\ call'.op = "Push"
        /\ (call'.key = "" \/ call'.value = NilValue))
       => (/\ result'.err = ErrInvalid
           /\ UNCHANGED <<items, keys, linearCurrentSize>>
           /\ "" \notin DOMAIN items')]_vars

(* C13: on an empty container Pop, Take, Get and Read fail with the        *)
(* empty error and change nothing.                                         *)
EmptyContainerErrors ==
    [][(/\ IsEmpty
        /\ call'.op \in {"Pop", "Take", "Get", "Read"})
       => (/\ result' = [item |-> NilValue, err |-> ErrEmpty]
           /\ IsEmpty'
           /\ UNCHANGED <<items, keys, linearCurrentSize>>)]_vars

(* C13 witness: a Read of a key on an empty container was refused *)
EmptyContainerErrorsWitness ==
    /\ call.op = "Read"
    /\ call.key = "a"
    /\ result.err = ErrEmpty
    /\ IsEmpty
    /\ linearCurrentSize = 0

(* C14 as claimed: on a non-empty container Get and Read of a key that is  *)
(* not present fail with the key-not-found error and change nothing.       *)
MissingKeyFails ==
    [][(/\ ~IsEmpty
        /\ call'.op \in {"Get", "Read"}
        /\ call'.key \notin DOMAIN items)
       => (/\ result'.err = ErrNotExist
           /\ UNCHANGED <<items, keys, linearCurrentSize>>)]_vars

(* C14 as amended: on a non-empty container Get and Read of a key that is  *)
(* not present return an absent value with no error and change nothing.    *)
MissingKeyReturnsNil ==
    [][(/\ ~IsEmpty
        /\ call'.op \in {"Get", "Read"}
        /\ call'.key \notin DOMAIN items)
       => (/\ result' = [item |-> NilValue, err |-> ErrNone]
           /\ UNCHANGED <<items, keys, linearCurrentSize>>)]_vars

(* C14 witness: a Get of a key that is in neither the order nor the value  *)
(* store of a container that holds a live entry.                           *)
MissingKeyReturnsNilWitness ==
    /\ call.op = "Get"
    /\ result = [item |-> NilValue, err |-> ErrNone]
    /\ call.key \notin DOMAIN items
    /\ call.key \notin Elements(keys)
    /\ DOMAIN items # {}

(* C15: a successful Update(k, v) stores v for k (a Read of k returns v),  *)
(* changes the running size by cost(k, v) - cost(k, old value), and        *)
(* changes neither the key count nor the order nor any other value.        *)
UpdateInPlace ==
    [][(/\ call'.op = "Update"
        /\ result'.err = ErrNone)
       => (/\ call'.key \in DOMAIN items
           /\ ReadIn(StateNext, call'.key) = [item |-> call'.value, err |-> ErrNone]
           /\ linearCurrentSize' = linearCurrentSize
                 + calculateItemSize(call'.key, call'.value)
                 - calculateItemSize(call'.key, items[call'.key])
           /\ GetNumberOfKeys' = GetNumberOfKeys
           /\ keys' = keys
           /\ DOMAIN items' = DOMAIN items
           /\ \A k \in DOMAIN items \ {call'.key} : items'[k] = items[k])]_vars

(* C15 witness: an Update that stored a value of another cost for the      *)
(* first of two live keys.                                                 *)
UpdateInPlaceWitness ==
    /\ call.op = "Update"
    /\ result.err = ErrNone
    /\ Len(keys) = 2
    /\ keys[1] = call.key
    /\ keys[2] # call.key
    /\ DOMAIN items = Elements(keys)
    /\ items[call.key] = Str("p")
    /\ linearCurrentSize = LiveCost

(* C16: Update fails with the invalid-argument error for an empty key or   *)
(* an absent value, with the empty error on an empty container, with a     *)
(* not-enough-space error when the new cost exceeds the limit, with the    *)
(* key-not-found error for a key that does not exist, and a failing        *)
(* Update changes nothing.                                                 *)
UpdateFailures ==
    [][(call'.op = "Update")
       => (/\ (call'.key = "" \/ call'.value = NilValue)
                 => result'.err = ErrInvalid
           /\ (call'.key # "" /\ call'.value # NilValue /\ IsEmpty)
                 => result'.err = ErrEmpty
           /\ (/\ call'.key # "" /\ call'.value # NilValue /\ ~IsEmpty
               /\ calculateItemSize(call'.key, call'.value) > linearSizes)
                 => result'.err \in {ErrNoSpace, ErrEmptyOrNoSpace}
           /\ (/\ call'.key # "" /\ call'.value # NilValue /\ ~IsEmpty
               /\ calculateItemSize(call'.key, call'.value) <= linearSizes
               /\ call'.key \notin DOMAIN items)
                 => result'.err = ErrNotExist
           /\ result'.err # ErrNone
                 => UNCHANGED <<items, keys, linearCurrentSize>>)]_vars

(* C17: the limit is always positive: SetLinearSizes(n) with n <= 0 fails  *)
(* and keeps the limit, and with n > 0 succeeds and makes the limit n.     *)
CapacityPositive ==
    /\ GetLinearSizes > 0
    /\ [][/\ GetLinearSizes' > 0
          /\ (call'.op = "SetLinearSizes" /\ call'.size <= 0)
                => (result'.err = ErrBadSize /\ GetLinearSizes' = GetLinearSizes)
          /\ (call'.op = "SetLinearSizes" /\ call'.size > 0)
                => (result'.err = ErrNone /\ GetLinearSizes' = call'.size)]_vars

(* C17 witness: a SetLinearSizes(0) that was refused *)
CapacityPositiveWitness ==
    /\ call.op = "SetLinearSizes"
    /\ call.size <= 0
    /\ result.err = ErrBadSize

(* C18: SetLinearSizes changes neither the order nor the values nor the    *)
(* running size, also when it lowers the limit below the running size;     *)
(* with eviction enabled the next successful Push leaves the running size  *)
(* at most the new limit.                                                  *)
SetCapacityNeverEvicts ==
    [][/\ (call'.op = "SetLinearSizes")
             => UNCHANGED <<items, keys, linearCurrentSize>>
       /\ (/\ call.op = "SetLinearSizes"
           /\ result.err = ErrNone
           /\ sizeChecker
           /\ call'.op = "Push"
           /\ result'.err = ErrNone)
             => (/\ GetLinearSizes' = call.size
                 /\ GetLinearCurrentSize' <= call.size)]_vars

(* C18 witness: with eviction enabled, the limit was just lowered below    *)
(* the running size of a container of two live entries, which are still    *)
(* there.                                                                  *)
SetCapacityNeverEvictsWitness ==
    /\ call.op = "SetLinearSizes"
    /\ result.err = ErrNone
    /\ sizeChecker
    /\ GetLinearCurrentSize > GetLinearSizes
    /\ Len(keys) = 2
    /\ DOMAIN items = Elements(keys)
    /\ Cardinality(DOMAIN items) = 2

(* C19: no call ends in a runtime panic *)
NoAbort == result.err # ErrPanic

(* C20: a Range whose visitor always continues calls it exactly once for   *)
(* every live entry, with the entry's value, so as often as the key count  *)
(* says; a Range whose visitor stops calls it exactly once on a non-empty  *)
(* container; Range changes nothing.                                       *)
RangeVisitsEveryEntry ==
    [][(call'.op = "Range")
       => (/\ call'.size = 1 =>
                 /\ \A k \in DOMAIN items :
                       Cardinality({i \in DOMAIN visited' :
                                       visited'[i] = <<k, items[k]>>}) = 1
                 /\ Len(visited') = GetNumberOfKeys
           /\ (call'.size = 0 /\ ~IsEmpty) => Len(visited') = 1
           /\ UNCHANGED <<items, keys, linearCurrentSize, linearSizes>>)]_vars

(* The report of IsExits for a key that is a live entry, and for one that  *)
(* is not.                                                                 *)
Found(k, value) == [size |-> calculateItemSize(k, value), exits |-> TRUE]

NotFound == [size |-> 0, exits |-> FALSE]

ExistsReport(st) ==
    \A k \in Keys :
        IsExitsIn(st, k) = IF k \in DOMAIN st.items THEN Found(k, st.items[k])
                           ELSE NotFound

(* The keys of the first n elements of the order *)
PrefixKeys(n) == {keys[i] : i \in 1..n}

(* C21: IsExits(k) reports the cost of k with its stored value and true    *)
(* exactly when k is a live entry, and 0 and false otherwise; it reports   *)
(* not found for the key a Get, Pop or Take has just removed and for the   *)
(* keys a Push has just evicted.                                           *)
ExistsReportsLiveEntries ==
    /\ ExistsReport(State)
    /\ [][/\ ExistsReport(StateNext)
          /\ (call'.op = "Get") => IsExitsIn(StateNext, call'.key) = NotFound
          /\ (call'.op = "Take" /\ ~IsEmpty)
                => IsExitsIn(StateNext, keys[1]) = NotFound
          /\ (call'.op = "Pop" /\ ~IsEmpty)
                => IsExitsIn(StateNext, keys[Len(keys)]) = NotFound
          /\ (call'.op = "Push" /\ result'.err = ErrNone)
                => \A k \in PrefixKeys(Len(keys) + 1 - Len(keys')) \ {call'.key} :
                      IsExitsIn(StateNext, k) = NotFound]_vars

(* C21 witness: a Push has just evicted the oldest entry, whose key is no  *)
(* longer found, and the pushed key is found with its cost.                *)
ExistsReportsLiveEntriesWitness ==
    /\ call.op = "Push"
    /\ result.err = ErrNone
    /\ scen.phase = "pushing"
    /\ scen.evicted
    /\ Len(scen.pushed) = 3
    /\ Len(keys) = 2
    /\ IsExits(scen.pushed[1][1]) = NotFound
    /\ IsExits(call.key) = Found(call.key, call.value)
    /\ IsExits(call.key).size = 2

(* C22: the container is empty exactly when it has no live entries, and    *)
(* then its running size is 0.                                             *)
EmptyIffNoLiveEntries ==
    /\ IsEmpty <=> DOMAIN items = {}
    /\ IsEmpty => GetLinearCurrentSize = 0
    /\ DOMAIN items = {} => GetLinearCurrentSize = 0

(* C29: every Push returns *)
PushTerminates == ~(call.op = "Push" /\ result.err = ErrHang)

(* The cost of the first n entries of the order, as removeByIndex          *)
(* subtracts it: nothing for a key the map does not hold.                  *)
RECURSIVE PrefixCost(_, _)
PrefixCost(st, n) ==
    IF n = 0 THEN 0
    ELSE PrefixCost(st, n - 1) +
         (IF Load(st, st.keys[n]) THEN calculateItemSize(st.keys[n], st.items[st.keys[n]])
          ELSE 0)

(* C30: a successful Push of a new key with eviction enabled leaves as     *)
(* order a suffix of the previous order followed by the new key; the       *)
(* evicted prefix is the shortest one whose removal makes the running size *)
(* plus the cost of the new entry fit the limit, so it is empty when the   *)
(* entry fits as it is.                                                    *)
EvictionOldestFirstMinimal ==
    [][(/\ sizeChecker
        /\ call'.op = "Push"
        /\ result'.err = ErrNone
        /\ call'.key \notin DOMAIN items)
       => LET cost == calculateItemSize(call'.key, call'.value)
              n == Len(keys) + 1 - Len(keys')
          IN  /\ n \in 0..Len(keys)
              /\ keys' = Append(SubSeq(keys, n + 1, Len(keys)), call'.key)
              /\ linearCurrentSize - PrefixCost(State, n) + cost <= linearSizes
              /\ \A m \in 0..(n - 1) :
                    linearCurrentSize - PrefixCost(State, m) + cost > linearSizes
              /\ DOMAIN items' = (DOMAIN items \ PrefixKeys(n)) \cup {call'.key}
              /\ linearCurrentSize' = linearCurrentSize - PrefixCost(State, n) + cost]_vars

(* C30 witness: the third Push evicted the first of two entries and kept   *)
(* the second, which is now followed by the new key.                       *)
EvictionOldestFirstMinimalWitness ==
    /\ call.op = "Push"
    /\ result.err = ErrNone
    /\ sizeChecker
    /\ scen.phase = "pushing"
    /\ scen.evicted
    /\ Len(scen.pushed) = 3
    /\ keys = <<scen.pushed[2][1], scen.pushed[3][1]>>
    /\ DOMAIN items = Elements(keys)

-----------------------------------------------------------------------------
(* Properties of the concurrent model *)

(* Every call has returned *)
Quiet == \A p \in Procs : pc[p] = "idle"

(* The calls caller p has made: those that returned and the one it runs *)
OpsOf(p) ==
    [i \in 1..Len(rets[p]) |-> rets[p][i].op]
        \o (IF pc[p] = "idle" THEN <<>> ELSE <<loc[p].op>>)

OnlyOps(ops) == \A p \in Procs : \A i \in 1..Len(OpsOf(p)) : OpsOf(p)[i] \in ops

IsPrefix(s, t) == Len(s) <= Len(t) /\ s = SubSeq(t, 1, Len(s))

OwnCost(p) == calculateItemSize(OwnKey(p), OwnValue(p))

RECURSIVE SumOwnCost(_)
SumOwnCost(ps) ==
    IF ps = {} THEN 0
    ELSE LET p == CHOOSE x \in ps : TRUE IN OwnCost(p) + SumOwnCost(ps \ {p})

(* C23: the running size is never negative *)
CurrentSizeNonNegative == GetLinearCurrentSize >= 0

(* The callers that have called Push *)
Pushers == {p \in Procs : OpsOf(p) # <<>>}

(* C24: when callers push distinct new keys concurrently, one Push each,   *)
(* and the total cost fits the limit, every Push returns no error, and     *)
(* once all have returned the key count is the number of pushes, every     *)
(* pushed key reads as its pushed value and the running size is the sum of *)
(* the costs.                                                              *)
ConcurrentPushOfDistinctKeys ==
    (/\ \A p \in Procs : IsPrefix(OpsOf(p), <<"Push">>)
     /\ SumOwnCost(Pushers) <= linearSizes)
    => /\ \A p \in Procs : \A i \in 1..Len(rets[p]) : rets[p][i].err = ErrNone
       /\ Quiet =>
             /\ GetNumberOfKeys = Cardinality(Pushers)
             /\ \A p \in Pushers :
                   ReadIn(State, OwnKey(p)) = [item |-> OwnValue(p), err |-> ErrNone]
             /\ GetLinearCurrentSize = SumOwnCost(Pushers)

(* C24 witness: both callers have pushed, with eviction enabled and a      *)
(* limit the two entries fill; the second caller's key came first.         *)
ConcurrentPushOfDistinctKeysWitness ==
    /\ Quiet
    /\ \A p \in Procs : OpsOf(p) = <<"Push">>
    /\ sizeChecker
    /\ linearSizes = 3
    /\ keys = <<"b", "a">>
    /\ GetLinearCurrentSize = 3

(* C25: when every caller pushes its own key and then pops, on a container *)
(* whose limit is far above the total cost, every Push returns no error    *)
(* and every Pop returns a pushed value or the empty error; no call        *)
(* panics.                                                                 *)
PushThenPopConcurrently ==
    (/\ \A p \in Procs : IsPrefix(OpsOf(p), <<"Push", "Pop">>)
     /\ linearSizes >= 2 * SumOwnCost(Procs))
    => \A p \in Procs : \A i \in 1..Len(rets[p]) :
          LET r == rets[p][i] IN
          /\ r.err # ErrPanic
          /\ r.op = "Push" => r.err = ErrNone
          /\ r.op = "Pop" =>
                \/ r.err = ErrNone /\ r.item \in {OwnValue(q) : q \in Procs}
                \/ r.err = ErrEmpty

(* No caller has pushed more than once *)
PushesOnce ==
    \A p \in Procs : Cardinality({i \in 1..Len(OpsOf(p)) : OpsOf(p)[i] = "Push"}) <= 1

(* C26: once all concurrent Push, Pop, Take, Get and Update calls have     *)
(* returned, the keys of the value store are the keys of the order, the    *)
(* order has no key twice, and the running size is the sum of the costs of *)
(* the live entries.                                                       *)
ConsistencyRestored ==
    (/\ Quiet
     /\ OnlyOps({"Push", "Pop", "Take", "Get", "Update"})
     /\ PushesOnce)
    => /\ DOMAIN items = Elements(keys)
       /\ \A i, j \in 1..Len(keys) : keys[i] = keys[j] => i = j
       /\ GetLinearCurrentSize = LiveCost

(* The calls that returned, and the orders to run them in one at a time *)
CallIds == {<<p, i>> : p \in Procs, i \in 1..MaxCalls} \cap
           {c \in Procs \X (1..MaxCalls) : c[2] <= Len(rets[c[1]])}

CallOrders ==
    {o \in [1..Cardinality(CallIds) -> CallIds] :
        \A i, j \in DOMAIN o : o[i] = o[j] => i = j}

(* A call applied to the container st as the sequential model does it *)
SeqApply(st, c) ==
    CASE c.op = "Push" ->
           LET r == PushIn(st, c.key, c.value, linearSizes, sizeChecker)
           IN  [item |-> NilValue, err |-> r.err, st |-> r.st]
      [] c.op = "Pop" ->
           LET r == PopIn(st) IN [item |-> r.item, err |-> r.err, st |-> r.st]
      [] c.op = "Take" ->
           LET r == TakeIn(st) IN [item |-> r.item, err |-> r.err, st |-> r.st]
      [] c.op = "Get" ->
           LET r == GetIn(st, c.key) IN [item |-> r.item, err |-> r.err, st |-> r.st]
      [] c.op = "Read" ->
           LET r == ReadIn(st, c.key) IN [item |-> r.item, err |-> r.err, st |-> st]
      [] c.op = "Update" ->
           LET r == UpdateIn(st, c.key, c.value, linearSizes)
           IN  [item |-> NilValue, err |-> r.err, st |-> r.st]

(* The calls of order o from its k-th on, run one at a time from st,       *)
(* return what they returned and end in the container as it is.            *)
RECURSIVE Replays(_, _, _)
Replays(st, o, k) ==
    IF k > Len(o) THEN st = State
    ELSE LET c == rets[o[k][1]][o[k][2]]
             r == SeqApply(st, c)
         IN  /\ r.item = c.item
             /\ r.err = c.err
             /\ Replays(r.st, o, k + 1)

EmptyState == [items |-> <<>>, keys |-> <<>>, cur |-> 0]

(* C27: every concurrent run of Push, Pop, Take, Get, Read and Update      *)
(* calls, none of which panicked, is equivalent to the same calls made one *)
(* at a time in some order: the same results and the same final container. *)
Linearizable ==
    (/\ Quiet
     /\ ~Panicked
     /\ OnlyOps({"Push", "Pop", "Take", "Get", "Read", "Update"}))
    => \E o \in CallOrders : Replays(EmptyState, o, 1)

(* The steps that end with the Unlock() of each mutex *)
SizeUnlock(p) == P_size(p) \/ R_size(p) \/ U_size(p) \/ S_set(p)

KeysUnlock(p) == P_keys(p) \/ R_keys(p)

(* C28: no caller waits for ever for a mutex: the caller that holds a      *)
(* mutex is at the statement under it, holds no other mutex and waits for  *)
(* none, and its next step unlocks; a caller at a Lock() of a free mutex   *)
(* can take it.                                                            *)
DeadlockFreedom ==
    Panicked \/
    /\ sizeMux # Free =>
          /\ pc[sizeMux] \in {"P_size", "R_size", "U_size", "S_set"}
          /\ ENABLED SizeUnlock(sizeMux)
    /\ keysMux # Free =>
          /\ pc[keysMux] \in {"P_keys", "R_keys"}
          /\ ENABLED KeysUnlock(keysMux)
    /\ \A p \in Procs :
          /\ (pc[p] \in {"P_lockS", "R_lockS", "U_lockS", "S_lockS"} /\ sizeMux = Free)
                => ENABLED LockSize(p)
          /\ (pc[p] \in {"P_lockK", "R_lockK"} /\ keysMux = Free)
                => ENABLED LockKeys(p)
          /\ pc[p] \in {"P_size", "R_size", "U_size", "S_set"} => sizeMux = p
          /\ pc[p] \in {"P_keys", "R_keys"} => keysMux = p

(* C28 witness: the Take of the eviction loop of a Push holds the size     *)
(* mutex while the other caller waits for it in SetLinearSizes.            *)
DeadlockFreedomWitness ==
    /\ pc[1] = "R_size"
    /\ loc[1].op = "Push"
    /\ sizeMux = 1
    /\ pc[2] = "S_lockS"
    /\ ~Panicked

-----------------------------------------------------------------------------
(* Properties of removal and of the size limit, sequential model *)

(* The sequence ks without the key k *)
RECURSIVE WithoutKey(_, _)
WithoutKey(ks, k) ==
    IF ks = <<>> THEN <<>>
    ELSE IF Head(ks) = k THEN WithoutKey(Tail(ks), k)
    ELSE <<Head(ks)>> \o WithoutKey(Tail(ks), k)

(* C31: Get(k) of a present key returns its value and removes exactly that *)
(* entry: the order afterwards is the order before with k deleted, every   *)
(* other entry keeps its value, and the running size drops by the cost of  *)
(* the entry.                                                              *)
GetRemovesExactlyThatEntry ==
    [][(/\ call'.op = "Get"
        /\ call'.key \in DOMAIN items)
       => (/\ result' = [item |-> items[call'.key], err |-> ErrNone]
           /\ keys' = WithoutKey(keys, call'.key)
           /\ GetNumberOfKeys' = GetNumberOfKeys - 1
           /\ DOMAIN items' = DOMAIN items \ {call'.key}
           /\ \A k \in DOMAIN items' : items'[k] = items[k]
           /\ linearCurrentSize' = linearCurrentSize
                 - calculateItemSize(call'.key, items[call'.key]))]_vars

(* C33: on a container that is not empty, Pop and Take return the value of *)
(* a live entry with no error and lower the key count by one.              *)
RemovalMakesProgress ==
    [][(/\ ~IsEmpty
        /\ call'.op \in {"Pop", "Take"})
       => (/\ result'.err = ErrNone
           /\ result'.item # NilValue
           /\ GetNumberOfKeys' = GetNumberOfKeys - 1)]_vars

(* C34: with eviction enabled, an operation Push, Pop, Take, Get or Update *)
(* that completes on a container whose running size is within the limit    *)
(* (and that holds no entry with an empty key) leaves it within the limit. *)
WithinCapacityAfterEveryOperation ==
    [][(/\ sizeChecker
        /\ GetLinearCurrentSize <= GetLinearSizes
        /\ "" \notin DOMAIN items
        /\ call'.op \in {"Push", "Pop", "Take", "Get", "Update"}
        /\ result'.err \notin {ErrPanic, ErrHang})
       => GetLinearCurrentSize' <= GetLinearSizes']_vars

ReadOnlyOps ==
    {"Read", "Range", "IsExits", "IsEmpty", "GetNumberOfKeys", "GetLinearSizes",
     "GetLinearCurrentSize"}

(* C32: Read, IsExits, IsEmpty, GetNumberOfKeys, GetLinearSizes,           *)
(* GetLinearCurrentSize and Range, whatever they return, change neither    *)
(* the order nor the values nor the running size nor the limit, so they    *)
(* evict nothing; the getters return the state as it is.                   *)
ReadOnlyOperationsArePure ==
    [][(call'.op \in ReadOnlyOps)
       => (/\ UNCHANGED <<items, keys, linearCurrentSize, linearSizes, sizeChecker>>
           /\ call'.op = "IsExits" => result'.item = Probe(IsExitsIn(State, call'.key))
           /\ call'.op = "IsEmpty" => result'.item = Num(IF Len(keys) = 0 THEN 1 ELSE 0)
           /\ call'.op = "GetNumberOfKeys" => result'.item = Num(Len(keys))
           /\ call'.op = "GetLinearSizes" => result'.item = Num(linearSizes)
           /\ call'.op = "GetLinearCurrentSize" => result'.item = Num(linearCurrentSize))]_vars

(* C32 witness: with eviction enabled, a Read returned a value from a      *)
(* container whose running size is above its limit, and evicted nothing.   *)
ReadOnlyOperationsArePureWitness ==
    /\ call.op = "Read"
    /\ result.err = ErrNone
    /\ result.item # NilValue
    /\ sizeChecker
    /\ GetLinearCurrentSize > GetLinearSizes
    /\ Len(keys) = 2
    /\ DOMAIN items = Elements(keys)

-----------------------------------------------------------------------------
(* Further properties of the concurrent model *)

(* C35: with eviction enabled, once all concurrent Push calls have         *)
(* returned the running size is within the limit.                          *)
ConcurrentPushWithinBudget ==
    (/\ Quiet
     /\ sizeChecker
     /\ OnlyOps({"Push"}))
    => GetLinearCurrentSize <= GetLinearSizes

(* The calls that removed an entry: a Pop, Take or Get that returned a     *)
(* value.                                                                  *)
Removals ==
    {c \in CallIds : /\ rets[c[1]][c[2]].op \in {"Pop", "Take", "Get"}
                     /\ rets[c[1]][c[2]].err = ErrNone
                     /\ rets[c[1]][c[2]].item # NilValue}

PushesDone ==
    {c \in CallIds : rets[c[1]][c[2]].op = "Push" /\ rets[c[1]][c[2]].err = ErrNone}

(* C36: under concurrent Pop, Take and Get calls, every pushed entry is    *)
(* returned by at most one removing call, and once all calls have returned *)
(* the key count is the number of pushes less the number of removals.      *)
AtMostOnceDelivery ==
    (/\ OnlyOps({"Push", "Pop", "Take", "Get"})
     /\ PushesOnce
     /\ ~Panicked)
    => /\ \A p \in Procs :
             Cardinality({c \in Removals : rets[c[1]][c[2]].item = OwnValue(p)}) <= 1
       /\ Quiet => GetNumberOfKeys = Cardinality(PushesDone) - Cardinality(Removals)

(* The steps that read or write l.keys, and those that read or write       *)
(* l.linearCurrentSize or l.linearSizes.                                   *)
KeysAccess == {"R_empty", "R_key", "G_find", "U_empty", "P_keys", "R_keys"}

SizeAccess == {"P_loop", "P_cmp", "U_limit", "P_size", "R_size", "U_size", "S_set"}

(* C37: a caller about to read or write the key slice holds the key mutex, *)
(* and a caller about to read or write the running size or the limit holds *)
(* the size mutex.                                                         *)
LockingDiscipline ==
    \A p \in Procs :
        /\ pc[p] \in KeysAccess => keysMux = p
        /\ pc[p] \in SizeAccess => sizeMux = p

====
